---- MODULE Spec2Model ----
(***************************************************************************)
(* Model of numba/control_flow/flowy.py: the naming service (make_temper), *)
(* the OperationBuilder graph-construction API and the LLVMMapper lowering *)
(* pass.                                                                   *)
(*                                                                         *)
(* Python strings are sequences of one-character strings, so Dec and the   *)
(* '%s_%d' formatting are computed, not assumed.  A Block is its 1-based   *)
(* position in funcgraph.blocks, a Variable its position in vars, an       *)
(* Operation its position in ops.                                          *)
(***************************************************************************)
EXTENDS Integers, Sequences, FiniteSets, TLC

VARIABLES
    temps,        \* OperationBuilder.block_temper: the defaultdict(int) of make_temper
    log,          \* observer: the direct temper calls so far, <<[name, ret]>>
    blocks,       \* FunctionGraph.blocks
    vars,         \* the Variables created by the builder
    ops,          \* the Operations created
    last,         \* observer: the last builder call, its arguments and outcome
    pc,           \* LLVMMapper.make_llvm_graph: position in the pass
    bidx,         \* index of the next block of the emission loop
    llvm_blocks,  \* LLVMMapper.llvm_blocks: Block -> low-level block (its name)
    llvm_values,  \* LLVMMapper.llvm_values: the Variables already lowered
    code,         \* per Block, the instructions emitted into its low-level block
    err           \* the exception that ended the pass, "" when none

vars_all == <<temps, log, blocks, vars, ops, last, pc, bidx, llvm_blocks, llvm_values, code, err>>

--------------------------------------------------------------------------
(* Bounds *)

MaxCalls == 4        \* direct temper calls
MaxVars == 3         \* Variables created by op / create_variable
MaxArgs == 2         \* arguments of an Operation
MaxValBlocks == 1    \* blocks added while Variables are created
GraphPool == 2       \* Variables at hand while the graph is edited
MaxAddBlocks == 3    \* blocks added by add_block alone
MaxBlocks == 4       \* blocks of a graph, edits included
MaxInstrs == 2       \* instructions appended to the blocks of a graph
MaxLowerBlocks == 3  \* blocks added to a graph that is lowered
MaxLowerInstrs == 2  \* instructions appended to a graph that is lowered
MaxDiamondBlocks == 5  \* blocks of a graph after if_then_else

--------------------------------------------------------------------------
(* Strings *)

Range(s) == {s[i] : i \in DOMAIN s}

Digit(d) == <<SubSeq(<<"0", "1", "2", "3", "4", "5", "6", "7", "8", "9">>, d + 1, d + 1)[1]>>

\* str(n) / '%d' % n for n >= 0
RECURSIVE Dec(_)
Dec(n) == IF n < 10 THEN Digit(n) ELSE Dec(n \div 10) \o Digit(n % 10)

EmptyStr == <<>>
None == <<"None">>
StrX == <<"x">>
StrX1 == <<"x", "_", "1">>
Str0 == <<"0">>
StrBlock == <<"b", "l", "o", "c", "k">>

\* the base names callers pass
BaseNames == {EmptyStr, StrX, StrX1, Str0}

--------------------------------------------------------------------------
(* make_temper *)

\* temps[name] of a defaultdict(int)
Count(t, name) == IF name \in DOMAIN t THEN t[name] ELSE 0

\* temps[name] += 1
TempsAfter(t, name) ==
    [n \in (DOMAIN t) \cup {name} |-> IF n = name THEN Count(t, name) + 1 ELSE t[n]]

\* temper without its "count == 0" case: the first name is suffixed too
TemperRetNoFirst(t, name) ==
    IF name # EmptyStr THEN name \o <<"_">> \o Dec(Count(t, name))
    ELSE Dec(Count(t, name))

\* the value temper(name) returns when the dict is t
TemperRet(t, name) ==
    LET count == Count(t, name) IN
    IF name # EmptyStr /\ count = 0 THEN name
    ELSE IF name # EmptyStr THEN name \o <<"_">> \o Dec(count)
    ELSE Dec(count)

--------------------------------------------------------------------------
(* basicblocks.BasicBlock: the parent/child edge primitive.  children and  *)
(* parents are duplicate-free and keep insertion order.                    *)

AppendNew(s, x) == IF x \in Range(s) THEN s ELSE Append(s, x)

Without(s, x) == SelectSeq(s, LAMBDA y : y # x)

\* one edge p -> c, recorded at both ends
AddEdge(bs, p, c) ==
    [i \in DOMAIN bs |->
        [bs[i] EXCEPT !.children = IF i = p THEN AppendNew(@, c) ELSE @,
                      !.parents = IF i = c THEN AppendNew(@, p) ELSE @]]

\* b.add_parents(*ps)
RECURSIVE add_parents(_, _, _)
add_parents(bs, b, ps) ==
    IF ps = <<>> THEN bs ELSE add_parents(AddEdge(bs, Head(ps), b), b, Tail(ps))

\* b.add_children(*cs)
RECURSIVE add_children(_, _, _)
add_children(bs, b, cs) ==
    IF cs = <<>> THEN bs ELSE add_children(AddEdge(bs, b, Head(cs)), b, Tail(cs))

\* b.detach_children()
detach_children(bs, b) ==
    [i \in DOMAIN bs |->
        [bs[i] EXCEPT !.children = IF i = b THEN <<>> ELSE @,
                      !.parents = IF i \in Range(bs[b].children) THEN Without(@, b) ELSE @]]

\* b.detach_parents()
detach_parents(bs, b) ==
    [i \in DOMAIN bs |->
        [bs[i] EXCEPT !.parents = IF i = b THEN <<>> ELSE @,
                      !.children = IF i \in Range(bs[b].parents) THEN Without(@, b) ELSE @]]

--------------------------------------------------------------------------
(* OperationBuilder.  A builder state is [temps, blocks]; every method is   *)
(* an operator from the state before to the state after.                    *)

\* Block(id, label, pos): no instructions, no edges
NewBlock(id, label) ==
    [id |-> id, label |-> label, instrs |-> <<>>, children |-> <<>>, parents |-> <<>>]

\* name or "block"
NameOrBlock(name) == IF name = None \/ name = EmptyStr THEN StrBlock ELSE name

\* add_block(parents, name): the new block is Len(st.blocks) + 1
add_block(st, parents, name) ==
    LET label == TemperRet(st.temps, NameOrBlock(name))
        block == NewBlock(Len(st.blocks), label)
        bs    == Append(st.blocks, block)
    IN  [temps  |-> TempsAfter(st.temps, NameOrBlock(name)),
         blocks |-> add_parents(bs, Len(bs), parents)]

\* the uses lists after "for arg in args: if arg.is_var: arg.uses.append(var)"
RECURSIVE UpdateUses(_, _, _)
UpdateUses(vs, args, var) ==
    IF args = <<>> THEN vs
    ELSE LET arg == Head(args)
             vs1 == IF arg.is_var
                    THEN [vs EXCEPT ![arg.val].uses = Append(@, var)]
                    ELSE vs
         IN  UpdateUses(vs1, Tail(args), var)

\* Variable(name, operation)
NewVariable(name, o) == [name |-> name, operation |-> o, uses |-> <<>>]

\* an argument: a Variable (is_var, its index) or a Constant (its value)
VarArg(v) == [is_var |-> TRUE, val |-> v]
ConstArg(c) == [is_var |-> FALSE, val |-> c]

\* the values an argument list is drawn from: the Variables so far and a Constant
ArgValues(vs) == {VarArg(i) : i \in DOMAIN vs} \cup {ConstArg(2)}

RECURSIVE SeqsUpTo(_, _)
SeqsUpTo(S, n) ==
    IF n = 0 THEN {<<>>}
    ELSE LET shorter == SeqsUpTo(S, n - 1)
         IN  shorter \cup {Append(s, x) : s \in shorter, x \in S}

\* Operation(opcode, args)
Operation(opcode, args) == [opcode |-> opcode, args |-> args, result |-> 0]

\* create_variable(operation, name) on the values [temps, vars, ops]; the new
\* Variable is Len(sv.vars) + 1
create_variable(sv, o, name) ==
    LET var == Len(sv.vars) + 1
        vs  == Append(sv.vars, NewVariable(TemperRet(sv.temps, name), o))
    IN  [temps |-> TempsAfter(sv.temps, name),
         vars  |-> UpdateUses(vs, sv.ops[o].args, var),
         ops   |-> [sv.ops EXCEPT ![o].result = var]]

\* op(opcode, args, name)
op(sv, opcode, args, name) ==
    create_variable([sv EXCEPT !.ops = Append(@, Operation(opcode, args))],
                    Len(sv.ops) + 1, name)

\* list.index(x): the first position of x, 0 when absent (ValueError)
Index(s, x) ==
    IF x \in Range(s) THEN CHOOSE i \in DOMAIN s : s[i] = x /\ \A j \in 1..(i - 1) : s[j] # x
    ELSE 0

\* splitblock whose "children" is the collection detach_children empties: the
\* new block inherits nothing
splitblock_alias(st, block, instr, name) ==
    LET bs1       == detach_children(st.blocks, block)
        children  == bs1[block].children
        st2       == add_block([st EXCEPT !.blocks = bs1], <<block>>, name)
        newblock  == Len(st2.blocks)
        bs3       == add_children(st2.blocks, newblock, children)
        instrs    == bs3[block].instrs
        split_idx == Index(instrs, instr)
    IN  IF split_idx = 0
        THEN [temps |-> st2.temps, blocks |-> bs3, ret |-> 0, err |-> "ValueError"]
        ELSE [temps  |-> st2.temps,
              blocks |-> [bs3 EXCEPT ![block].instrs = SubSeq(instrs, 1, split_idx - 1),
                                     ![newblock].instrs = SubSeq(instrs, split_idx, Len(instrs))],
              ret    |-> newblock,
              err    |-> ""]

\* splitblock(block, instr, name) on [temps, blocks]: the state it leaves, the
\* block it returns and the exception it raises ("" when none)
splitblock(st, block, instr, name) ==
    LET children  == st.blocks[block].children
        bs1       == detach_children(st.blocks, block)
        st2       == add_block([st EXCEPT !.blocks = bs1], <<block>>, name)
        newblock  == Len(st2.blocks)
        bs3       == add_children(st2.blocks, newblock, children)
        instrs    == bs3[block].instrs
        split_idx == Index(instrs, instr)
    IN  IF split_idx = 0
        THEN [temps |-> st2.temps, blocks |-> bs3, ret |-> 0, err |-> "ValueError"]
        ELSE [temps  |-> st2.temps,
              blocks |-> [bs3 EXCEPT ![block].instrs = SubSeq(instrs, 1, split_idx - 1),
                                     ![newblock].instrs = SubSeq(instrs, split_idx, Len(instrs))],
              ret    |-> newblock,
              err    |-> ""]

\* if_then_else(block, instr, condition, if_body, else_body), last statement
\* first.  else_body <<>> is the omitted or empty else.
\*
\* exit_block.add_parents([if_block, else_block]) hands add_parents one list
\* where it takes blocks: flat tells whether the primitive takes the list's
\* elements as the parents or raises.
ite_join(s4, cond_block, exit_block, if_block, else_block, flat) ==
    [temps  |-> s4.temps,
     blocks |-> IF flat
                THEN add_parents(s4.blocks, exit_block, <<if_block, else_block>>)
                ELSE s4.blocks,
     err    |-> IF flat THEN "" ELSE "TypeError",
     cond_block |-> cond_block, exit_block |-> exit_block,
     if_block |-> if_block, else_block |-> else_block]

\* else_block = self.add_block([cond_block]); else_block.instrs = else_body
ite_else(s4a, cond_block, exit_block, if_block, else_body, flat) ==
    ite_join([s4a EXCEPT !.blocks[Len(s4a.blocks)].instrs = else_body],
             cond_block, exit_block, if_block, Len(s4a.blocks), flat)

\* if_block.instrs = if_body; if else_body: ... else: else_block = cond_block
ite_if(s3a, cond_block, exit_block, if_body, else_body, flat) ==
    LET if_block == Len(s3a.blocks)
        s3       == [s3a EXCEPT !.blocks[if_block].instrs = if_body]
    IN  IF else_body # <<>>
        THEN ite_else(add_block(s3, <<cond_block>>, None),
                      cond_block, exit_block, if_block, else_body, flat)
        ELSE ite_join(s3, cond_block, exit_block, if_block, cond_block, flat)

\* exit_block.detach_parents(); if_block = self.add_block([cond_block]); a
\* ValueError of splitblock ends the call
ite_exit(sp, cond_block, if_body, else_body, flat) ==
    IF sp.err # ""
    THEN [temps |-> sp.temps, blocks |-> sp.blocks, err |-> sp.err,
          cond_block |-> cond_block, exit_block |-> 0, if_block |-> 0, else_block |-> 0]
    ELSE ite_if(add_block([temps |-> sp.temps, blocks |-> detach_parents(sp.blocks, sp.ret)],
                          <<cond_block>>, None),
                cond_block, sp.ret, if_body, else_body, flat)

\* cond_block.append(condition); exit_block = self.splitblock(block, instr)
ite_cond(s1, block, instr, condition, if_body, else_body, flat) ==
    ite_exit(splitblock([s1 EXCEPT !.blocks[Len(s1.blocks)].instrs = Append(@, condition)],
                        block, instr, None),
             Len(s1.blocks), if_body, else_body, flat)

\* cond_block = self.add_block([block]), and the rest
if_then_else(st, block, instr, condition, if_body, else_body, flat) ==
    ite_cond(add_block(st, <<block>>, None), block, instr, condition, if_body, else_body, flat)

--------------------------------------------------------------------------
(* The state after construction, and the builder's calls *)

EmptyDict == [n \in {} |-> 0]

lowerVars == <<pc, bidx, llvm_blocks, llvm_values, code, err>>

InitLowering ==
    /\ pc = "build"
    /\ bidx = 0
    /\ llvm_blocks = <<>>
    /\ llvm_values = {}
    /\ code = <<>>
    /\ err = ""

\* FunctionGraph(name) and OperationBuilder(funcgraph)
Init ==
    /\ temps = EmptyDict
    /\ log = <<>>
    /\ blocks = <<>>
    /\ vars = <<>>
    /\ ops = <<>>
    /\ last = [call |-> "none"]
    /\ InitLowering

\* temper(name), called directly
Temper(name) ==
    /\ Len(log) < MaxCalls
    /\ log' = Append(log, [name |-> name, ret |-> TemperRet(temps, name)])
    /\ temps' = TempsAfter(temps, name)
    /\ UNCHANGED <<blocks, vars, ops, last, lowerVars>>

\* builder.add_block(parents, name)
AddBlock(parents, name) ==
    /\ pc = "build"
    /\ LET st == add_block([temps |-> temps, blocks |-> blocks], parents, name)
       IN  /\ temps' = st.temps
           /\ blocks' = st.blocks
    /\ last' = [call |-> "add_block"]
    /\ UNCHANGED <<log, vars, ops, lowerVars>>

\* builder.op(opcode, args, name)
Op(opcode, args, name) ==
    /\ pc = "build"
    /\ LET sv == op([temps |-> temps, vars |-> vars, ops |-> ops], opcode, args, name)
       IN  /\ temps' = sv.temps
           /\ vars' = sv.vars
           /\ ops' = sv.ops
    /\ last' = [call |-> "op"]
    /\ UNCHANGED <<log, blocks, lowerVars>>

\* builder.create_variable(operation, name) on an Operation that exists
CreateVariable(o, name) ==
    /\ pc = "build"
    /\ LET sv == create_variable([temps |-> temps, vars |-> vars, ops |-> ops], o, name)
       IN  /\ temps' = sv.temps
           /\ vars' = sv.vars
           /\ ops' = sv.ops
    /\ last' = [call |-> "create_variable"]
    /\ UNCHANGED <<log, blocks, lowerVars>>

\* block.append(instr)
BlockAppend(b, instr) ==
    /\ pc = "build"
    /\ blocks' = [blocks EXCEPT ![b].instrs = Append(@, instr)]
    /\ last' = [call |-> "append"]
    /\ UNCHANGED <<temps, log, vars, ops, lowerVars>>

\* builder.splitblock(block, instr, name)
SplitBlock(b, instr, name) ==
    /\ pc = "build"
    /\ LET r == splitblock([temps |-> temps, blocks |-> blocks], b, instr, name)
       IN  /\ temps' = r.temps
           /\ blocks' = r.blocks
           /\ last' = [call |-> "splitblock", block |-> b, instr |-> instr,
                       before |-> blocks, ret |-> r.ret, err |-> r.err]
    /\ UNCHANGED <<log, vars, ops, lowerVars>>

\* builder.if_then_else(block, instr, condition, if_body, else_body)
IfThenElse(b, instr, condition, if_body, else_body, flat) ==
    /\ pc = "build"
    /\ LET r == if_then_else([temps |-> temps, blocks |-> blocks], b, instr,
                             condition, if_body, else_body, flat)
       IN  /\ temps' = r.temps
           /\ blocks' = r.blocks
           /\ last' = [call |-> "if_then_else", block |-> b, instr |-> instr,
                       else_body |-> else_body, before |-> blocks, err |-> r.err,
                       cond_block |-> r.cond_block, exit_block |-> r.exit_block,
                       if_block |-> r.if_block, else_block |-> r.else_block]
    /\ UNCHANGED <<log, vars, ops, lowerVars>>

--------------------------------------------------------------------------
(* The naming service alone *)

NextTemper == \E name \in BaseNames : Temper(name)

SpecTemper == Init /\ [][NextTemper]_vars_all

\* the number of calls up to the i-th with the i-th call's base name
Occurrence(i) == Cardinality({j \in 1..i : log[j].name = log[i].name})

SameBaseDistinct ==
    \A i, j \in DOMAIN log :
        (i # j /\ log[i].name = log[j].name) => log[i].ret # log[j].ret

\* C1 as stated: the k-th call with a base name returns the name when k = 1
\* ("0" when the name is empty) and "{name}_{k-1}" when k >= 2, and the names
\* returned for one base name are pairwise distinct.
C1_Original ==
    /\ \A i \in DOMAIN log :
          LET name == log[i].name
              k    == Occurrence(i)
          IN  log[i].ret = IF k = 1
                           THEN (IF name = EmptyStr THEN Str0 ELSE name)
                           ELSE name \o <<"_">> \o Dec(k - 1)
    /\ SameBaseDistinct

\* C1 amended: for a non-empty base name the k-th call returns the name when
\* k = 1 and "{name}_{k-1}" when k >= 2; for the empty base name the k-th call
\* returns the decimal k-1 ("0", "1", ...); the names returned for one base
\* name are pairwise distinct.
C1_TemperNames ==
    /\ \A i \in DOMAIN log :
          LET name == log[i].name
              k    == Occurrence(i)
          IN  log[i].ret = IF name = EmptyStr THEN Dec(k - 1)
                           ELSE IF k = 1 THEN name
                           ELSE name \o <<"_">> \o Dec(k - 1)
    /\ SameBaseDistinct

\* a repeated call with the empty name and a repeated call with "x"
C1_Witness ==
    /\ \E i \in DOMAIN log : log[i].name = EmptyStr /\ Occurrence(i) = 2 /\ log[i].ret = <<"1">>
    /\ \E i \in DOMAIN log : log[i].name = StrX /\ Occurrence(i) = 2 /\ log[i].ret = StrX \o <<"_", "1">>

--------------------------------------------------------------------------
(* Creating Variables: op, create_variable and add_block share block_temper *)

\* the opcodes of the target: an add, a comparison, a conditional branch, a return
Opcodes == {"add", "lt", "br", "ret"}

NextValues ==
    \/ \E parents \in SeqsUpTo(DOMAIN blocks, 1), name \in {None, StrX} :
          Len(blocks) < MaxValBlocks /\ AddBlock(parents, name)
    \/ \E args \in SeqsUpTo(ArgValues(vars), MaxArgs), name \in BaseNames :
          Len(vars) < MaxVars /\ Op("add", args, name)
    \/ \E o \in DOMAIN ops, name \in BaseNames :
          Len(vars) < MaxVars /\ CreateVariable(o, name)

SpecValues == Init /\ [][NextValues]_vars_all

\* C2 as stated: no two Variables created by one builder have the same name,
\* whatever base names the caller chose.
C2_Original ==
    \A v, w \in DOMAIN vars : v # w => vars[v].name # vars[w].name

\* how many times x occurs in s
Occurs(s, x) == Cardinality({i \in DOMAIN s : s[i] = x})

\* C3 as stated: every Variable v occurs exactly once in the uses of every
\* Variable argument of its defining operation, also when that argument
\* occurs at more than one position.
C3_Original ==
    \A v \in DOMAIN vars :
        \A a \in Range(ops[vars[v].operation].args) :
            a.is_var => Occurs(vars[a.val].uses, v) = 1

--------------------------------------------------------------------------
(* Editing the graph: add_block, append, splitblock, if_then_else, with the *)
(* Variables made beforehand by op calls with the default name.  The entry  *)
(* block is the one that is filled; the other blocks get their instructions *)
(* from the splits.                                                         *)

PoolScript ==
    << Operation("add", <<ConstArg(2), ConstArg(3)>>),
       Operation("lt", <<VarArg(1), ConstArg(3)>>),
       Operation("br", <<VarArg(2)>>),
       Operation("ret", <<VarArg(1)>>) >>

\* the builder's values after op(opcode, args) for each entry of the script
RECURSIVE RunOps(_, _)
RunOps(sv, script) ==
    IF script = <<>> THEN sv
    ELSE RunOps(op(sv, Head(script).opcode, Head(script).args, EmptyStr), Tail(script))

Min(a, b) == IF a < b THEN a ELSE b

InitPool(n) ==
    LET sv == RunOps([temps |-> EmptyDict, vars |-> <<>>, ops |-> <<>>],
                     SubSeq(PoolScript, 1, Min(n, Len(PoolScript))))
    IN  /\ temps = sv.temps
        /\ vars = sv.vars
        /\ ops = sv.ops
        /\ log = <<>>
        /\ blocks = <<>>
        /\ last = [call |-> "none"]
        /\ InitLowering

InitGraph == InitPool(GraphPool)

RECURSIVE SumLen(_, _)
SumLen(bs, n) == IF n = 0 THEN 0 ELSE Len(bs[n].instrs) + SumLen(bs, n - 1)

\* the instructions held by the blocks of the graph
TotalInstrs == SumLen(blocks, Len(blocks))

NextGraph ==
    \/ \E parents \in SeqsUpTo(DOMAIN blocks, 1) :
          Len(blocks) < MaxAddBlocks /\ AddBlock(parents, None)
    \/ \E v \in DOMAIN vars :
          blocks # <<>> /\ TotalInstrs < MaxInstrs /\ BlockAppend(1, v)
    \/ \E b \in DOMAIN blocks, v \in DOMAIN vars :
          Len(blocks) < MaxBlocks /\ SplitBlock(b, v, None)

SpecGraph == InitGraph /\ [][NextGraph]_vars_all

ChildSet(bs, b) == Range(bs[b].children)
ParentSet(bs, b) == Range(bs[b].parents)

\* C4: after b2 = splitblock(b, instr) on a block holding instr, b.instrs +
\* b2.instrs is b's instruction sequence from before the call and b2.instrs
\* starts at instr, b2's children are b's children from before the call, b's
\* children are {b2} and b2's only parent is b.
C4_SplitInvariant ==
    (last.call = "splitblock" /\ last.instr \in Range(last.before[last.block].instrs)) =>
        LET b == last.block
            b2 == last.ret
        IN  /\ last.err = ""
            /\ b2 = Len(last.before) + 1
            /\ blocks[b].instrs \o blocks[b2].instrs = last.before[b].instrs
            /\ Head(blocks[b2].instrs) = last.instr
            /\ ChildSet(blocks, b2) = ChildSet(last.before, b)
            /\ \A c \in ChildSet(last.before, b) :
                  ParentSet(blocks, c) = (ParentSet(last.before, c) \ {b}) \cup {b2}
            /\ ChildSet(blocks, b) = {b2}
            /\ ParentSet(blocks, b2) = {b}

\* a split in the middle of a block that had two children
C4_Witness ==
    /\ last.call = "splitblock"
    /\ last.err = ""
    /\ Cardinality(ChildSet(last.before, last.block)) = 2
    /\ blocks[last.block].instrs # <<>>
    /\ blocks[last.ret].instrs # <<>>

\* C10 as stated: splitblock with an instr the block does not hold fails, and
\* the graph is then as it was before the call.
C10_Original ==
    (last.call = "splitblock" /\ last.instr \notin Range(last.before[last.block].instrs)) =>
        /\ last.err # ""
        /\ blocks = last.before

--------------------------------------------------------------------------
(* The OperationContext of the target *)

is_terminator(o) == ops[o].opcode \in {"br", "ret"}
is_return(o) == ops[o].opcode = "ret"
is_conditional_branch(o) == ops[o].opcode = "br"
is_boolean_operation(o) == ops[o].opcode = "lt"

\* str(opcode.op)
opname(opcode) ==
    CASE opcode = "add" -> <<"a", "d", "d">>
      [] opcode = "lt"  -> <<"l", "t">>
      [] opcode = "br"  -> <<"b", "r">>
      [] opcode = "ret" -> <<"r", "e", "t">>

--------------------------------------------------------------------------
(* LLVMMapper.  An emission state is [values, out, err]: llvm_values, the   *)
(* instructions of the low-level block under the insertion point, and the   *)
(* exception raised ("" when none).                                         *)

Call(sym, args, restype) == [k |-> "call", sym |-> sym, args |-> args, restype |-> restype]
Br(b) == [k |-> "br", to |-> b]
CondBr(c, t, f) == [k |-> "condbr", cond |-> c, to |-> t, else_to |-> f]
Ret == [k |-> "ret"]

\* LLVMBuilder.make_block: 'block_%s' % blockname
make_block(label) == StrBlock \o <<"_">> \o label

\* llvm_operation: the call to "{opname}_{arity}"
llvm_operation(o, llvm_args) ==
    Call(opname(ops[o].opcode) \o <<"_">> \o Dec(Len(ops[o].args)),
         llvm_args,
         IF is_boolean_operation(o) THEN "i1" ELSE "opaque")

\* process_op(var)
process_op(es, var) ==
    LET o     == vars[var].operation
        vargs == SelectSeq(ops[o].args, LAMBDA a : a.is_var)
        args  == [i \in DOMAIN vargs |-> vargs[i].val]
    IN  IF es.err # "" THEN es
        ELSE IF \E i \in DOMAIN args : args[i] \notin es.values
        THEN [es EXCEPT !.err = "KeyError"]
        ELSE [values |-> es.values \cup {var},
              out    |-> Append(es.out, llvm_operation(o, args)),
              err    |-> ""]

\* for var in instrs: process_op(var)
RECURSIVE process_ops(_, _)
process_ops(es, instrs) ==
    IF instrs = <<>> THEN es ELSE process_ops(process_op(es, Head(instrs)), Tail(instrs))

\* terminate_block(block)
terminate_block(es, b) ==
    LET instrs == blocks[b].instrs
        o      == vars[instrs[Len(instrs)]].operation
    IN  IF es.err # "" THEN es
        ELSE IF ~is_terminator(o) \/ ~is_conditional_branch(o) \/ Len(blocks[b].children) # 2
        THEN [es EXCEPT !.err = "AssertionError"]
        ELSE IF ops[o].args = <<>>
        THEN [es EXCEPT !.err = "IndexError"]
        ELSE IF ~ops[o].args[1].is_var \/ ops[o].args[1].val \notin es.values
        THEN [es EXCEPT !.err = "KeyError"]
        ELSE [es EXCEPT !.out = Append(@, CondBr(ops[o].args[1].val,
                                                 blocks[b].children[1],
                                                 blocks[b].children[2]))]

\* one turn of the "Generete abstract IR" loop
emit_block(es, b) ==
    LET instrs == blocks[b].instrs
        body   == process_ops(es, SubSeq(instrs, 1, Len(instrs) - 1))
    IN  IF Len(blocks[b].children) = 1
        THEN LET es1 == IF instrs # <<>> THEN process_op(body, instrs[Len(instrs)]) ELSE body
             IN  IF es1.err # "" THEN es1
                 ELSE [es1 EXCEPT !.out = Append(@, Br(blocks[b].children[1]))]
        ELSE IF instrs # <<>> THEN terminate_block(body, b)
        ELSE body

IsTerminatorInstr(i) == i.k \in {"br", "condbr", "ret"}

\* llvm_utils.verify_module: every low-level block ends in a terminator and
\* holds no other
verify(c) ==
    \A b \in DOMAIN c :
        /\ c[b] # <<>>
        /\ \A i \in DOMAIN c[b] : IsTerminatorInstr(c[b][i]) <=> i = Len(c[b])

\* LLVMMapper(funcgraph, opctx).make_llvm_graph(), up to the end of the
\* "Allocate blocks" loop
AllocateBlocks ==
    /\ pc = "build"
    /\ IF blocks = <<>>
       THEN /\ pc' = "abort"
            /\ err' = "AssertionError"
            /\ UNCHANGED <<bidx, llvm_blocks, code>>
       ELSE /\ pc' = "emit"
            /\ bidx' = 1
            /\ llvm_blocks' = [b \in DOMAIN blocks |-> make_block(blocks[b].label)]
            /\ code' = [b \in DOMAIN blocks |-> <<>>]
            /\ err' = ""
    /\ UNCHANGED <<temps, log, blocks, vars, ops, last, llvm_values>>

\* the loop's turn for blocks[bidx]
EmitBlock ==
    /\ pc = "emit"
    /\ LET es == emit_block([values |-> llvm_values, out |-> code[bidx], err |-> ""], bidx)
       IN  /\ llvm_values' = es.values
           /\ code' = [code EXCEPT ![bidx] = es.out]
           /\ err' = es.err
           /\ IF es.err # ""
              THEN pc' = "abort" /\ bidx' = bidx
              ELSE /\ bidx' = bidx + 1
                   /\ pc' = IF bidx = Len(blocks) THEN "finalize" ELSE "emit"
    /\ UNCHANGED <<temps, log, blocks, vars, ops, last, llvm_blocks>>

\* after the loop: block is blocks[-1]; is_return is handed the Block, not an
\* operation, and on_block is what the target's is_return makes of that
Finalize(on_block) ==
    /\ pc = "finalize"
    /\ LET block == Len(blocks)
           raises == blocks[block].instrs # <<>> /\ on_block = "raise"
           ret    == blocks[block].instrs = <<>> \/ on_block = "false"
           c      == IF ret THEN [code EXCEPT ![block] = Append(@, Ret)] ELSE code
       IN  IF raises
           THEN pc' = "abort" /\ err' = "AttributeError" /\ code' = code
           ELSE /\ code' = c
                /\ IF verify(c)
                   THEN pc' = "done" /\ err' = ""
                   ELSE pc' = "abort" /\ err' = "VerifyError"
    /\ UNCHANGED <<temps, log, blocks, vars, ops, last, bidx, llvm_blocks, llvm_values>>

InitLower == InitPool(Len(PoolScript))

\* the graph has been through splitblock or if_then_else
Edited == last.call \in {"splitblock", "if_then_else"}

\* a graph is built, edited at most once, and lowered.  The Variables are those
\* of PoolScript: 1 the add, 2 the comparison, 3 the branch on it, 4 the return;
\* if_then_else gets the comparison or the branch as its condition, [add] as
\* if_body and [ret] or nothing as else_body.
NextLower ==
    \/ \E parents \in SeqsUpTo(DOMAIN blocks, 1) :
          ~Edited /\ Len(blocks) < MaxLowerBlocks /\ AddBlock(parents, None)
    \/ \E b \in DOMAIN blocks, v \in DOMAIN vars :
          ~Edited /\ TotalInstrs < MaxLowerInstrs /\ BlockAppend(b, v)
    \/ \E b \in DOMAIN blocks, v \in DOMAIN vars :
          ~Edited /\ Len(blocks) < MaxLowerBlocks /\ SplitBlock(b, v, None)
    \/ \E b \in DOMAIN blocks, v \in DOMAIN vars, c \in {2, 3}, else_body \in {<<>>, <<4>>}, flat \in BOOLEAN :
          ~Edited /\ Len(blocks) + 3 < MaxDiamondBlocks /\ IfThenElse(b, v, c, <<1>>, else_body, flat)
    \/ AllocateBlocks
    \/ EmitBlock
    \/ \E on_block \in {"true", "false", "raise"} : Finalize(on_block)

SpecLower == InitLower /\ [][NextLower]_vars_all

\* C5 as stated: after if_then_else with a non-empty else_body on a block b
\* holding instr, cond_block is a child of b with children {if_block,
\* else_block}, and exit_block, holding b's instructions from instr onward, is
\* a child of if_block and of else_block and of no other block.
C5_Original ==
    (/\ last.call = "if_then_else"
     /\ last.else_body # <<>>
     /\ last.instr \in Range(last.before[last.block].instrs)) =>
        /\ last.cond_block \in ChildSet(blocks, last.block)
        /\ ChildSet(blocks, last.cond_block) = {last.if_block, last.else_block}
        /\ last.exit_block \in ChildSet(blocks, last.if_block)
        /\ last.exit_block \in ChildSet(blocks, last.else_block)
        /\ ParentSet(blocks, last.exit_block) = {last.if_block, last.else_block}
        /\ Head(blocks[last.exit_block].instrs) = last.instr

\* the pass has ended, one way or the other
Ended == pc \in {"done", "abort"}

\* the instructions of kind k emitted into the low-level block of b
EmittedIn(b, k) == {i \in DOMAIN code[b] : code[b][i].k = k}

\* the instructions of kind k emitted into the low-level blocks
Emitted(k) == UNION {{<<b, i>> : i \in EmittedIn(b, k)} : b \in DOMAIN code}

StrAdd2 == <<"a", "d", "d", "_", "2">>

\* one block without children whose only instruction is the add of 2 and 3
Scenario6 ==
    /\ ~Edited
    /\ Len(blocks) = 1
    /\ blocks[1].children = <<>>
    /\ blocks[1].instrs = <<1>>
    /\ ops[vars[1].operation].opcode = "add"
    /\ ops[vars[1].operation].args = <<ConstArg(2), ConstArg(3)>>

\* C6 as stated: lowering that graph completes and leaves one low-level block
\* holding one call to "add_2" followed by one default-value return.
C6_Original ==
    (Scenario6 /\ Ended) =>
        /\ pc = "done"
        /\ Len(code[1]) = 2
        /\ code[1][1].k = "call" /\ code[1][1].sym = StrAdd2
        /\ code[1][2] = Ret

\* an entry block of two instructions, edited by if_then_else at the second
\* with one-instruction bodies
Scenario7 ==
    /\ last.call = "if_then_else"
    /\ Len(last.before) = 1
    /\ Len(last.before[1].instrs) = 2
    /\ last.instr = last.before[1].instrs[2]
    /\ last.instr # last.before[1].instrs[1]
    /\ last.else_body # <<>>

\* C7 as stated: lowering the diamond completes with one conditional branch
\* and two unconditional branches, both to the exit block, every low-level
\* block ending in exactly one terminator.
C7_Original ==
    (Scenario7 /\ Ended) =>
        /\ pc = "done"
        /\ Cardinality(Emitted("condbr")) = 1
        /\ Cardinality(Emitted("br")) = 2
        /\ \A x \in Emitted("br") : code[x[1]][x[2]].to = last.exit_block
        /\ verify(code)

\* the emission loop is past block b
Processed(b) == pc \in {"emit", "finalize", "done", "abort"} /\ b < bidx

\* the call process_op emits for var
CallOf(var) == llvm_operation(vars[var].operation, <<>>).sym

\* C8 as stated: a block with one child gets one call per instruction and then
\* one unconditional branch to the child; a block with two children gets one
\* conditional branch to its first and second child, unless lowering aborts at
\* it on the assertions of terminate_block; it is never passed over without a
\* branch.  (An abort on an argument that was never lowered is left aside.)
C8_Original ==
    /\ \A b \in DOMAIN blocks :
          Processed(b) =>
             LET instrs == blocks[b].instrs
                 children == blocks[b].children
             IN  /\ Len(children) = 1 =>
                       /\ Len(code[b]) > Len(instrs)
                       /\ \A i \in DOMAIN instrs :
                             code[b][i].k = "call" /\ code[b][i].sym = CallOf(instrs[i])
                       /\ code[b][Len(instrs) + 1] = Br(children[1])
                       /\ Cardinality(EmittedIn(b, "br")) = 1
                       /\ Cardinality(EmittedIn(b, "call")) = Len(instrs)
                 /\ Len(children) = 2 =>
                       /\ Cardinality(EmittedIn(b, "condbr")) = 1
                       /\ \A i \in EmittedIn(b, "condbr") :
                             code[b][i].to = children[1] /\ code[b][i].else_to = children[2]
    /\ (/\ pc = "abort"
        /\ bidx \in DOMAIN blocks
        /\ Len(blocks[bidx].children) = 2
        /\ err = "AssertionError") =>
           LET instrs == blocks[bidx].instrs
               o == vars[instrs[Len(instrs)]].operation
           IN  ~(is_terminator(o) /\ is_conditional_branch(o))

\* the last instruction of the graph's last block classifies as a return
LastIsReturn ==
    /\ blocks # <<>>
    /\ blocks[Len(blocks)].instrs # <<>>
    /\ is_return(vars[blocks[Len(blocks)].instrs[Len(blocks[Len(blocks)].instrs)]].operation)

\* C9 as stated: past the finalize step one default-value return has been
\* synthesized, in the last block's low-level block, exactly if the last block
\* is empty or its last instruction is no return; and when that instruction
\* is a return the pass does not fail on the last block or at finalize other
\* than on an argument that was never lowered.
C9_Original ==
    /\ (Ended /\ bidx = Len(blocks) + 1) =>
          /\ Emitted("ret") = (IF LastIsReturn THEN {}
                               ELSE {<<Len(blocks), Len(code[Len(blocks)])>>})
          /\ LastIsReturn => pc = "done"
    /\ (pc = "abort" /\ bidx = Len(blocks) /\ LastIsReturn) => err = "KeyError"

====
